---- MODULE Spec2Model ----
(***************************************************************************)
(* Model of the YaYa Wallet transaction proxy: AppController (inbound      *)
(* validation), AppService (request signing, the upstream call, response   *)
(* normalisation and pagination metadata).                                 *)
(*                                                                         *)
(* JavaScript values are tagged records; the payload field has a different *)
(* name for every type, so that values of different types are comparable.  *)
(* A string is a sequence of chunks: strings that the code parses or       *)
(* escapes are written character by character, fixed texts that are only   *)
(* copied and concatenated are written as one chunk.  Numbers are integers *)
(* or NaN: the alphabet of the modelled strings has no ".", "e" or         *)
(* "Infinity", on which parseFloat and parseInt(_, 10) read the same       *)
(* decimal prefix.                                                         *)
(***************************************************************************)
EXTENDS Integers, Sequences, FiniteSets

VARIABLES
    apiKey,       \* AppService.apiKey
    apiSecret,    \* AppService.apiSecret
    now,          \* the clock read by Date.now(), in milliseconds
    pc,           \* per inbound request: "idle", "awaiting" (suspended in axios), "done"
    inbound,      \* per inbound request: the HTTP request as the controller receives it
    locals,       \* per inbound request: the locals of the suspended service call
    outbound,     \* per inbound request: the upstream HTTP request in flight
    calls,        \* per inbound request: number of upstream calls issued for it
    reply,        \* per inbound request: what axios settled with
    outcome,      \* per inbound request: the HTTP response sent to the caller
    errlog,       \* per inbound request: what console.error received
    raw,          \* normaliser run: the argument of transformTransactions
    normalized    \* normaliser run: its completion

vars == <<apiKey, apiSecret, now, pc, inbound, locals, outbound, calls, reply,
          outcome, errlog, raw, normalized>>

gatewayVars == <<apiKey, apiSecret, pc, inbound, locals, outbound, calls, reply,
                 outcome, errlog>>

----------------------------------------------------------------------------
(* Bounds of the model *)

NumRequests == 2      \* inbound requests that may be in flight together
ClockStart  == 1999   \* Date.now() in the initial state
MaxTicks    == 1      \* milliseconds the clock may advance
MaxItems    == 2      \* longest upstream list given to the normaliser

Requests == 1 .. NumRequests
Clock    == ClockStart .. (ClockStart + MaxTicks)

----------------------------------------------------------------------------
(* JavaScript values *)

Undefined == [t |-> "undefined"]
Null      == [t |-> "null"]
NaN       == [t |-> "number", nan |-> TRUE]
Str(s)    == [t |-> "string", s |-> s]
Num(n)    == [t |-> "number", n |-> n]
Bool(b)   == [t |-> "boolean", b |-> b]
Obj(o)    == [t |-> "object", o |-> o]
Arr(a)    == [t |-> "array", a |-> a]

\* A thrown TypeError, as the completion of an expression
TypeError == [t |-> "throw", e |-> "TypeError"]

IsNaN(v)     == v.t = "number" /\ "nan" \in DOMAIN v
IsNullish(v) == v.t \in {"undefined", "null"}

\* ToBoolean
Truthy(v) ==
    CASE v.t = "undefined" -> FALSE
      [] v.t = "null"      -> FALSE
      [] v.t = "boolean"   -> v.b
      [] v.t = "number"    -> ~IsNaN(v) /\ v.n # 0
      [] v.t = "string"    -> v.s # <<>>
      [] OTHER             -> TRUE

\* a || b
Or(a, b) == IF Truthy(a) THEN a ELSE b

\* v.k for a non-nullish v: own properties of objects, undefined on the
\* primitives and arrays for the keys the code reads
Get(v, k) ==
    IF v.t = "object" /\ k \in DOMAIN v.o THEN v.o[k] ELSE Undefined

\* v?.k
OptGet(v, k) == IF IsNullish(v) THEN Undefined ELSE Get(v, k)

Digits     == {"0", "1", "2", "3", "4", "5", "6", "7", "8", "9"}
WhiteSpace == {" "}

DigitVal(c) ==
    CASE c = "0" -> 0 [] c = "1" -> 1 [] c = "2" -> 2 [] c = "3" -> 3
      [] c = "4" -> 4 [] c = "5" -> 5 [] c = "6" -> 6 [] c = "7" -> 7
      [] c = "8" -> 8 [] c = "9" -> 9

DigitChar(d) ==
    CASE d = 0 -> "0" [] d = 1 -> "1" [] d = 2 -> "2" [] d = 3 -> "3"
      [] d = 4 -> "4" [] d = 5 -> "5" [] d = 6 -> "6" [] d = 7 -> "7"
      [] d = 8 -> "8" [] d = 9 -> "9"

RECURSIVE NatToString(_)
NatToString(n) ==
    IF n < 10 THEN <<DigitChar(n)>>
    ELSE NatToString(n \div 10) \o <<DigitChar(n % 10)>>

\* Number.prototype.toString for the integers
NumToString(n) == IF n < 0 THEN <<"-">> \o NatToString(-n) ELSE NatToString(n)

RECURSIVE String(_)
RECURSIVE JoinComma(_)
\* Array.prototype.join(","): null and undefined elements give the empty string
JoinComma(a) ==
    IF a = <<>> THEN <<>>
    ELSE LET h == IF IsNullish(Head(a)) THEN <<>> ELSE String(Head(a))
         IN  IF Len(a) = 1 THEN h ELSE h \o <<",">> \o JoinComma(Tail(a))

\* String(v), also the conversion of a template literal
String(v) ==
    CASE v.t = "string"    -> v.s
      [] v.t = "number"    -> IF IsNaN(v) THEN <<"NaN">> ELSE NumToString(v.n)
      [] v.t = "boolean"   -> IF v.b THEN <<"true">> ELSE <<"false">>
      [] v.t = "undefined" -> <<"undefined">>
      [] v.t = "null"      -> <<"null">>
      [] v.t = "array"     -> JoinComma(v.a)
      [] OTHER             -> <<"[object Object]">>

RECURSIVE SkipWhiteSpace(_)
SkipWhiteSpace(s) ==
    IF s # <<>> /\ Head(s) \in WhiteSpace THEN SkipWhiteSpace(Tail(s)) ELSE s

RECURSIVE DigitRun(_)
DigitRun(s) ==
    IF s # <<>> /\ Head(s) \in Digits
    THEN <<Head(s)>> \o DigitRun(Tail(s))
    ELSE <<>>

RECURSIVE DecimalValue(_)
DecimalValue(ds) ==
    IF ds = <<>> THEN 0
    ELSE 10 * DecimalValue(SubSeq(ds, 1, Len(ds) - 1)) + DigitVal(ds[Len(ds)])

\* The number read from the longest decimal prefix of a string: leading
\* white space, an optional sign, digits; NaN when there is no digit
DecimalPrefix(s) ==
    LET t  == SkipWhiteSpace(s)
        sg == t # <<>> /\ Head(t) \in {"-", "+"}
        u  == IF sg THEN Tail(t) ELSE t
        ds == DigitRun(u)
    IN  IF ds = <<>> THEN NaN
        ELSE IF sg /\ Head(t) = "-" THEN Num(-DecimalValue(ds))
        ELSE Num(DecimalValue(ds))

parseFloat(v) == DecimalPrefix(String(v))

parseInt10(v) == DecimalPrefix(String(v))

RECURSIVE TrimEnd(_)
TrimEnd(s) ==
    IF s # <<>> /\ s[Len(s)] \in WhiteSpace
    THEN TrimEnd(SubSeq(s, 1, Len(s) - 1))
    ELSE s

\* String.prototype.trim
trim(s) == TrimEnd(SkipWhiteSpace(s))

----------------------------------------------------------------------------
(* AppService.transformTransactions *)

EmptyString == Str(<<>>)
ETB         == Str(<<"E", "T", "B">>)

\* The callback of data.map: reading a property of a null or undefined item
\* throws, every other item gives a record
transformItem(item, clock) ==
    IF IsNullish(item) THEN TypeError
    ELSE
    [ id       |-> Or(Get(item, "id"), EmptyString),
      sender   |-> [ name    |-> Or(OptGet(Get(item, "sender"), "name"), EmptyString),
                     account |-> Or(OptGet(Get(item, "sender"), "account"), EmptyString) ],
      receiver |-> [ name    |-> Or(OptGet(Get(item, "receiver"), "name"), EmptyString),
                     account |-> Or(OptGet(Get(item, "receiver"), "account"), EmptyString) ],
      amount_with_currency |->
          Or(Get(item, "amount_with_currency"),
             Str(String(Or(Get(item, "amount"), Num(0)))
                 \o <<".", "0", "0", " ">>
                 \o String(Or(Get(item, "currency"), ETB)))),
      amount   |-> Or(parseFloat(Get(item, "amount")), Num(0)),
      amount_in_base_currency |->
          Or(Or(parseFloat(Get(item, "amount_in_base_currency")),
                parseFloat(Get(item, "amount"))),
             Num(0)),
      fee      |-> Or(parseFloat(Get(item, "fee")), Num(0)),
      currency |-> Or(Get(item, "currency"), ETB),
      cause    |-> Or(Get(item, "cause"), EmptyString),
      sender_caption   |-> Or(Get(item, "sender_caption"), EmptyString),
      receiver_caption |-> Or(Get(item, "receiver_caption"), EmptyString),
      created_at_time  |-> Or(Get(item, "created_at_time"), Num(clock \div 1000)),
      is_topup             |-> Bool(Truthy(Get(item, "is_topup"))),
      is_outgoing_transfer |-> Bool(Truthy(Get(item, "is_outgoing_transfer"))),
      fee_vat        |-> Or(parseFloat(Get(item, "fee_vat")), Num(0)),
      fee_before_vat |-> Or(parseFloat(Get(item, "fee_before_vat")), Num(0)) ]

\* The completion of transformTransactions(data): the array of records, or
\* the TypeError that the first null or undefined item throws
transformTransactions(data, clock) ==
    IF data.t # "array" THEN Arr(<<>>)
    ELSE IF \E i \in 1 .. Len(data.a) : IsNullish(data.a[i]) THEN TypeError
    ELSE Arr([i \in 1 .. Len(data.a) |-> transformItem(data.a[i], clock)])

----------------------------------------------------------------------------
(* AppService: request signing *)

baseUrl == <<"https://sandbox.yayawallet.com">>

\* crypto.createHmac('sha256', key).update(msg).digest('base64'): a string
\* that is an injective function of the key and of the message
HmacSha256Base64(key, msg) == [t |-> "string", hmac |-> [key |-> key, msg |-> msg]]

generateSignature(timestamp, method, endpoint, body) ==
    LET preHashString == timestamp \o method \o endpoint \o body
    IN  HmacSha256Base64(apiSecret, preHashString)

HeaderNames ==
    {"Content-Type", "Accept", "YAYA-API-KEY", "YAYA-API-TIMESTAMP", "YAYA-API-SIGN"}

\* getAuthHeaders reading the clock a second time for the header it sends
getAuthHeadersTwoClockReads(method, endpoint, body, clock) ==
    LET signature == generateSignature(NumToString(clock), method, endpoint, body)
    IN  [h \in HeaderNames |->
            CASE h = "Content-Type"       -> Str(<<"application/json">>)
              [] h = "Accept"             -> Str(<<"application/json">>)
              [] h = "YAYA-API-KEY"       -> apiKey
              [] h = "YAYA-API-TIMESTAMP" -> Str(NumToString(clock + 1))
              [] h = "YAYA-API-SIGN"      -> signature]

\* getAuthHeaders(method, endpoint, body) with Date.now() = clock
getAuthHeaders(method, endpoint, body, clock) ==
    LET timestamp == NumToString(clock)
        signature == generateSignature(timestamp, method, endpoint, body)
    IN  [h \in HeaderNames |->
            CASE h = "Content-Type"       -> Str(<<"application/json">>)
              [] h = "Accept"             -> Str(<<"application/json">>)
              [] h = "YAYA-API-KEY"       -> apiKey
              [] h = "YAYA-API-TIMESTAMP" -> Str(timestamp)
              [] h = "YAYA-API-SIGN"      -> signature]

RECURSIVE JSONEscape(_)
\* The escapes of JSON.stringify for the quote and the backslash
JSONEscape(s) ==
    IF s = <<>> THEN <<>>
    ELSE (IF Head(s) \in {"\"", "\\"} THEN <<"\\", Head(s)>> ELSE <<Head(s)>>)
         \o JSONEscape(Tail(s))

\* JSON.stringify of a primitive
JSONPrimitive(v) ==
    CASE v.t = "string"  -> <<"\"">> \o JSONEscape(v.s) \o <<"\"">>
      [] v.t = "number"  -> IF IsNaN(v) THEN <<"null">> ELSE NumToString(v.n)
      [] v.t = "boolean" -> IF v.b THEN <<"true">> ELSE <<"false">>
      [] v.t = "null"    -> <<"null">>

\* JSON.stringify({ query }): an undefined member is left out
JSONstringifyQuery(query) ==
    IF query = Undefined THEN <<"{", "}">>
    ELSE <<"{", "\"query\"", ":">> \o JSONPrimitive(query) \o <<"}">>

\* What axios transmits for the data argument: nothing for a request without
\* data, JSON.stringify of a plain object (its default transformRequest)
AxiosBody(data) ==
    IF data = Undefined THEN <<>> ELSE JSONstringifyQuery(Get(data, "query"))

\* The path of the request URL: the URL without its origin
UrlPath(url) == SubSeq(url, Len(baseUrl) + 1, Len(url))

----------------------------------------------------------------------------
(* How a handler ends *)

None == [t |-> "none"]

BAD_REQUEST == 400
BAD_GATEWAY == 502

HttpException(message, status) ==
    [kind |-> "HttpException", status |-> status, message |-> message]

\* The handler's promise rejects with an error that is no HttpException
Uncaught(error) == [kind |-> "uncaught", error |-> error]

Success(body) == [kind |-> "success", body |-> body]

InvalidPage   == Str(<<"Invalid page parameter">>)
InvalidLimit  == Str(<<"Invalid limit parameter (1-100)">>)
QueryRequired == Str(<<"Search query is required">>)
FailedFetch   == Str(<<"Failed to fetch transactions from YaYa Wallet API">>)
FailedSearch  == Str(<<"Failed to search transactions from YaYa Wallet API">>)

----------------------------------------------------------------------------
(* AppController *)

\* A parameter with a default value: the default replaces undefined only
DefaultPage(page)   == IF page = Undefined THEN Str(<<"1">>) ELSE page
DefaultLimit(limit) == IF limit = Undefined THEN Str(<<"1", "0">>) ELSE limit

\* The page and limit checks shared by both handlers: the exception thrown,
\* or the parsed numbers
ValidatePaging(page, limit) ==
    LET pageNum  == parseInt10(page)
        limitNum == parseInt10(limit)
    IN  IF IsNaN(pageNum) \/ pageNum.n < 1
        THEN HttpException(InvalidPage, BAD_REQUEST)
        ELSE IF IsNaN(limitNum) \/ limitNum.n < 1 \/ limitNum.n > 100
        THEN HttpException(InvalidLimit, BAD_REQUEST)
        ELSE [kind |-> "pass", page |-> pageNum, limit |-> limitNum]

\* !searchDto.query || searchDto.query.trim().length === 0: the exception
\* thrown, the TypeError of calling .trim on a value that has none, or pass
ValidateQuery(searchDto) ==
    IF IsNullish(searchDto) THEN Uncaught(TypeError)
    ELSE LET query == Get(searchDto, "query")
         IN  IF ~Truthy(query) THEN HttpException(QueryRequired, BAD_REQUEST)
             ELSE IF query.t # "string" THEN Uncaught(TypeError)
             ELSE IF Len(trim(query.s)) = 0
             THEN HttpException(QueryRequired, BAD_REQUEST)
             ELSE [kind |-> "pass"]

\* AppController.getTransactions up to its call of the service
getTransactionsController(page, limit) ==
    ValidatePaging(DefaultPage(page), DefaultLimit(limit))

\* AppController.searchTransactions up to its call of the service
searchTransactionsController(searchDto, page, limit) ==
    LET q == ValidateQuery(searchDto)
    IN  IF q.kind # "pass" THEN q
        ELSE ValidatePaging(DefaultPage(page), DefaultLimit(limit))

----------------------------------------------------------------------------
(* AppService: the two gateway operations *)

FindByUser     == <<"/api/en/transaction/find-by-user">>
SearchEndpoint == <<"/api/en/transaction/search">>

\* AppService.getTransactions up to its await: the captured parameters and
\* the request given to axios.get
getTransactionsCall(page, limit, clock) ==
    LET endpoint == FindByUser
        method   == <<"GET">>
        body     == <<>>
        headers  == getAuthHeaders(method, endpoint, body, clock)
    IN  [ locals  |-> [op |-> "getTransactions", page |-> page, limit |-> limit],
          request |-> [ method  |-> method,
                        url     |-> baseUrl \o endpoint,
                        headers |-> headers,
                        params  |-> [page |-> page, limit |-> limit],
                        body    |-> AxiosBody(Undefined) ] ]

\* AppService.searchTransactions up to its await
searchTransactionsCall(query, page, limit, clock) ==
    LET endpoint    == SearchEndpoint
        method      == <<"POST">>
        requestBody == JSONstringifyQuery(query)
        headers     == getAuthHeaders(method, endpoint, requestBody, clock)
    IN  [ locals  |-> [op |-> "searchTransactions", page |-> page, limit |-> limit],
          request |-> [ method  |-> method,
                        url     |-> baseUrl \o endpoint,
                        headers |-> headers,
                        params  |-> [page |-> page, limit |-> limit],
                        body    |-> AxiosBody(Obj([query |-> query])) ] ]

\* Number(v) of a number
Number(v) == CASE v.t = "number" -> v

\* Math.ceil(a / b) of two integers, b > 0
MathCeilDiv(a, b) == Num(-((-(a.n)) \div b.n))

PassedThrough(data) ==
    [ incomingSum |-> Get(data, "incomingSum"),
      outgoingSum |-> Get(data, "outgoingSum"),
      lastPage    |-> Get(data, "lastPage"),
      perPage     |-> Get(data, "perPage") ]

\* The try block of getTransactions after its await: the value returned, or
\* the TypeError thrown inside it
getTransactionsThen(page, limit, response, clock) ==
    IF IsNullish(response.data) THEN TypeError
    ELSE
    LET completion == transformTransactions(Or(Get(response.data, "data"), Arr(<<>>)), clock)
    IN  IF completion = TypeError THEN TypeError
        ELSE
        LET transactions == completion.a
            total == Or(Get(response.data, "total"), Num(Len(transactions)))
        IN  [ data |-> transactions,
              pagination |->
                  [ page  |-> Number(page),
                    limit |-> Number(limit),
                    total |-> total,
                    totalPages |-> Or(Get(response.data, "lastPage"),
                                      MathCeilDiv(total, limit)) ],
              extra |-> PassedThrough(response.data) ]

\* The try block of searchTransactions after its await
searchTransactionsThen(page, limit, response, clock) ==
    IF IsNullish(response.data) THEN TypeError
    ELSE
    LET completion == transformTransactions(Or(Get(response.data, "data"), response.data), clock)
    IN  IF completion = TypeError THEN TypeError
        ELSE
        LET transactions == completion.a
            total == Or(Get(response.data, "total"), Num(Len(transactions)))
        IN  [ data |-> transactions,
              pagination |->
                  [ page  |-> Number(page),
                    limit |-> Number(limit),
                    total |-> total,
                    totalPages |-> MathCeilDiv(total, limit) ],
              extra |-> PassedThrough(response.data) ]

\* The error object of a TypeError thrown inside a try block
TypeErrorObject == Obj([message |-> Str(<<"TypeError">>)])

\* console.error's second argument: error.response?.data || error.message
Logged(error) == Or(OptGet(Get(error, "response"), "data"), Get(error, "message"))

\* A catch block that puts what it logs into the exception
getTransactionsCatchLeaking(error) ==
    [ log |-> Logged(error), outcome |-> HttpException(Logged(error), BAD_GATEWAY) ]

\* The catch block of getTransactions
getTransactionsCatch(error) ==
    [ log |-> Logged(error), outcome |-> HttpException(FailedFetch, BAD_GATEWAY) ]

\* The catch block of searchTransactions
searchTransactionsCatch(error) ==
    [ log |-> Logged(error), outcome |-> HttpException(FailedSearch, BAD_GATEWAY) ]

\* A service call from the settling of its axios promise to its end
getTransactionsResume(page, limit, settled, clock) ==
    IF settled.state = "rejected" THEN getTransactionsCatch(settled.error)
    ELSE LET result == getTransactionsThen(page, limit, settled.response, clock)
         IN  IF result = TypeError THEN getTransactionsCatch(TypeErrorObject)
             ELSE [log |-> None, outcome |-> Success(result)]

searchTransactionsResume(page, limit, settled, clock) ==
    IF settled.state = "rejected" THEN searchTransactionsCatch(settled.error)
    ELSE LET result == searchTransactionsThen(page, limit, settled.response, clock)
         IN  IF result = TypeError THEN searchTransactionsCatch(TypeErrorObject)
             ELSE [log |-> None, outcome |-> Success(result)]

----------------------------------------------------------------------------
(* Inputs *)

\* An object of the given members, the undefined ones absent
ObjectOf(o) == Obj([k \in {x \in DOMAIN o : o[x] # Undefined} |-> o[k]])

PageParams  == { Undefined, Str(<<"2">>), Str(<<"0">>), Str(<<"x">>), Str(<<"3", "x">>) }
LimitParams == { Undefined, Str(<<"2">>), Str(<<"1", "0", "1">>), Str(<<"0">>),
                 Str(<<"a", "b">>) }

SearchBodies ==
    { ObjectOf([query |-> q]) :
        q \in { Undefined, Str(<<>>), Str(<<" ", " ">>), Str(<<"a", "\"", "b">>),
                Str(<<" ", "t", "1">>), Num(123), Null } }

FullItem ==
    Obj([ id |-> Str(<<"t", "1">>),
          sender   |-> Obj([name |-> Str(<<"A">>), account |-> Str(<<"a", "1">>)]),
          receiver |-> Obj([name |-> Str(<<"B">>), account |-> Str(<<"b", "1">>)]),
          amount_with_currency |-> Str(<<"1", "2", ".", "0", "0", " ", "U", "S", "D">>),
          amount |-> Num(12), amount_in_base_currency |-> Num(700), fee |-> Num(1),
          currency |-> Str(<<"U", "S", "D">>), cause |-> Str(<<"rent">>),
          sender_caption |-> Str(<<"s">>), receiver_caption |-> Str(<<"r">>),
          created_at_time |-> Num(1700), is_topup |-> Bool(FALSE),
          is_outgoing_transfer |-> Bool(TRUE), fee_vat |-> Num(1),
          fee_before_vat |-> Num(2) ])

SparseItem == Obj([id |-> Str(<<"t", "2">>), amount |-> Str(<<"1", "2">>)])

\* The lists an upstream reply may carry in the gateway runs
ReplyLists ==
    { Undefined, Arr(<<>>), Arr(<<FullItem>>), Arr(<<FullItem, SparseItem>>),
      Arr(<<Null>>), Arr(<<SparseItem, Num(7)>>), Str(<<"x">>) }

\* A total the upstream supplies counts at least the items of the page
Counts(tt, d) == tt = Undefined \/ d.t # "array" \/ tt.n >= Len(d.a)

\* The bodies of the 2xx replies: the envelope with or without its list, its
\* total and its lastPage; null; the list itself
ReplyBodies ==
    { ObjectOf([data |-> e[1], total |-> e[2], lastPage |-> e[3],
                incomingSum |-> Num(40)]) :
        e \in { x \in ReplyLists \X {Undefined, Num(0), Num(5)} \X {Undefined, Num(3)} :
                   Counts(x[2], x[1]) } }
    \cup { Null, Arr(<<SparseItem>>) }

UpstreamErrors ==
    { Obj([message |-> Str(<<"connect ECONNREFUSED">>)]),
      Obj([message  |-> Str(<<"Request failed with status code 500">>),
           response |-> Obj([status |-> Num(500),
                             data   |-> Obj([error |-> Str(<<"upstream trace">>)])])]),
      Obj([message  |-> Str(<<"Request failed with status code 401">>),
           response |-> Obj([status |-> Num(401), data |-> Str(<<"bad signature">>)])]) }

Fulfilled(data) == [state |-> "fulfilled", response |-> [status |-> 200, data |-> data]]
Rejected(error) == [state |-> "rejected", error |-> error]

Settlements ==
    { Fulfilled(d) : d \in ReplyBodies } \cup { Rejected(e) : e \in UpstreamErrors }

\* The inputs of the runs that interleave several requests
FewPages  == { Undefined, Str(<<"2">>), Str(<<"0">>) }
FewLimits == { Undefined }
FewBodies == { ObjectOf([query |-> Str(<<"a", "\"", "b">>)]) }
FewSettlements ==
    { Fulfilled(ObjectOf([data |-> Arr(<<SparseItem>>), total |-> Num(5)])),
      Rejected(Obj([message |-> Str(<<"connect ECONNREFUSED">>)])) }

----------------------------------------------------------------------------
(* The gateway as a state machine *)

Key0    == Str(<<"k", "e", "y">>)
Secret0 == Str(<<"s", "e", "c", "r", "e", "t">>)

Init ==
    /\ apiKey = Key0
    /\ apiSecret = Secret0
    /\ now = ClockStart
    /\ pc = [r \in Requests |-> "idle"]
    /\ inbound = [r \in Requests |-> None]
    /\ locals = [r \in Requests |-> None]
    /\ outbound = [r \in Requests |-> None]
    /\ calls = [r \in Requests |-> 0]
    /\ reply = [r \in Requests |-> None]
    /\ outcome = [r \in Requests |-> None]
    /\ errlog = [r \in Requests |-> None]
    /\ raw = None
    /\ normalized = None

\* The handler of r ends without having called the service
Finish(r, result) ==
    /\ pc' = [pc EXCEPT ![r] = "done"]
    /\ outcome' = [outcome EXCEPT ![r] = result]
    /\ UNCHANGED <<locals, outbound, calls, reply, errlog>>

\* The handler of r calls the service, which issues its request and awaits
Suspend(r, call) ==
    /\ pc' = [pc EXCEPT ![r] = "awaiting"]
    /\ locals' = [locals EXCEPT ![r] = call.locals]
    /\ outbound' = [outbound EXCEPT ![r] = call.request]
    /\ calls' = [calls EXCEPT ![r] = @ + 1]
    /\ UNCHANGED <<reply, outcome, errlog>>

\* GET /api/transactions arrives
GetTransactionsRequest(r, pages, limits) ==
    /\ pc[r] = "idle"
    /\ \E page \in pages, limit \in limits :
          LET v == getTransactionsController(page, limit)
          IN  /\ inbound' = [inbound EXCEPT ![r] =
                     [op |-> "getTransactions", page |-> page, limit |-> limit,
                      body |-> Undefined]]
              /\ IF v.kind = "pass"
                 THEN Suspend(r, getTransactionsCall(v.page, v.limit, now))
                 ELSE Finish(r, v)
    /\ UNCHANGED <<apiKey, apiSecret, now, raw, normalized>>

\* POST /api/transactions/search arrives
SearchTransactionsRequest(r, bodies, pages, limits) ==
    /\ pc[r] = "idle"
    /\ \E searchDto \in bodies, page \in pages, limit \in limits :
          LET v == searchTransactionsController(searchDto, page, limit)
          IN  /\ inbound' = [inbound EXCEPT ![r] =
                     [op |-> "searchTransactions", page |-> page, limit |-> limit,
                      body |-> searchDto]]
              /\ IF v.kind = "pass"
                 THEN Suspend(r, searchTransactionsCall(Get(searchDto, "query"),
                                                       v.page, v.limit, now))
                 ELSE Finish(r, v)
    /\ UNCHANGED <<apiKey, apiSecret, now, raw, normalized>>

\* page and limit kept in one place for all the calls in flight: what the
\* suspended call with the least number captured
CapturedShared(r) ==
    locals[CHOOSE s \in Requests :
              /\ pc[s] = "awaiting"
              /\ \A u \in Requests : pc[u] = "awaiting" => s <= u]

\* The parameters the suspended call of r captured
Captured(r) == locals[r]

\* The axios promise of r settles and the service call runs to its end
UpstreamSettles(r, settlements) ==
    /\ pc[r] = "awaiting"
    /\ \E settled \in settlements :
          LET c   == Captured(r)
              res == IF locals[r].op = "getTransactions"
                     THEN getTransactionsResume(c.page, c.limit, settled, now)
                     ELSE searchTransactionsResume(c.page, c.limit, settled, now)
          IN  /\ reply' = [reply EXCEPT ![r] = settled]
              /\ outcome' = [outcome EXCEPT ![r] = res.outcome]
              /\ errlog' = [errlog EXCEPT ![r] = res.log]
    /\ pc' = [pc EXCEPT ![r] = "done"]
    /\ UNCHANGED <<apiKey, apiSecret, now, inbound, locals, outbound, calls,
                   raw, normalized>>

\* The response of r is sent and everything built for r is dropped
Respond(r) ==
    /\ pc[r] = "done"
    /\ pc' = [pc EXCEPT ![r] = "idle"]
    /\ inbound' = [inbound EXCEPT ![r] = None]
    /\ locals' = [locals EXCEPT ![r] = None]
    /\ outbound' = [outbound EXCEPT ![r] = None]
    /\ calls' = [calls EXCEPT ![r] = 0]
    /\ reply' = [reply EXCEPT ![r] = None]
    /\ outcome' = [outcome EXCEPT ![r] = None]
    /\ errlog' = [errlog EXCEPT ![r] = None]
    /\ UNCHANGED <<apiKey, apiSecret, now, raw, normalized>>

\* Time passes
Tick ==
    /\ now < ClockStart + MaxTicks
    /\ now' = now + 1
    /\ UNCHANGED <<gatewayVars, raw, normalized>>

\* No request but r is being handled
Alone(r) == \A s \in Requests \ {r} : pc[s] = "idle"

\* Requests one at a time, over all the inputs
Next ==
    \/ \E r \in Requests : Alone(r) /\ GetTransactionsRequest(r, PageParams, LimitParams)
    \/ \E r \in Requests :
          Alone(r) /\ SearchTransactionsRequest(r, SearchBodies, PageParams, LimitParams)
    \/ \E r \in Requests : UpstreamSettles(r, Settlements)
    \/ \E r \in Requests : Respond(r)
    \/ Tick

Spec == Init /\ [][Next]_vars

\* Requests interleaved in every way, over a few inputs
NextConcurrent ==
    \/ \E r \in Requests : GetTransactionsRequest(r, FewPages, FewLimits)
    \/ \E r \in Requests : SearchTransactionsRequest(r, FewBodies, FewPages, FewLimits)
    \/ \E r \in Requests : UpstreamSettles(r, FewSettlements)
    \/ \E r \in Requests : Respond(r)
    \/ Tick

SpecConcurrent == Init /\ [][NextConcurrent]_vars

----------------------------------------------------------------------------
(* The normaliser alone, over the shapes an upstream item may have *)

AmountValues ==
    { Undefined, Null, Num(0), Num(5), Str(<<>>), Str(<<"0">>), Str(<<"1", "2">>),
      Str(<<"-", "3">>), Str(<<"a", "b", "c">>), Str(<<"7", "x">>), Bool(TRUE) }

TextValues ==
    { Undefined, Null, Str(<<>>), Str(<<"t", "1">>), Num(5), Bool(TRUE),
      Obj([x |-> Num(1)]) }

TextFields ==
    { "id", "currency", "cause", "sender_caption", "receiver_caption",
      "amount_with_currency" }

UserValues ==
    { Undefined, Null, Str(<<"x">>), Obj([name |-> Str(<<"A">>)]),
      Obj([name |-> Str(<<"A">>), account |-> Str(<<"a", "1">>)]),
      Obj([name |-> Num(1), account |-> Null]) }

FlagValues == { Undefined, Null, Bool(TRUE), Bool(FALSE), Num(1), Str(<<"false">>) }

TimeValues == { Undefined, Null, Num(0), Num(1700), Str(<<"x">>) }

\* Upstream items that differ from the empty object in one group of fields
Items ==
    { ObjectOf([amount |-> a, amount_in_base_currency |-> b]) :
        a \in AmountValues, b \in AmountValues }
    \cup { ObjectOf([amount |-> a, currency |-> c]) :
             a \in {Undefined, Num(5), Str(<<"7", "x">>)},
             c \in {Undefined, Str(<<"U", "S", "D">>), Num(5)} }
    \cup { Obj([k \in {f} |-> v]) : f \in TextFields, v \in TextValues \ {Undefined} }
    \cup { ObjectOf([fee |-> a, fee_vat |-> b, fee_before_vat |-> b]) :
             a \in AmountValues, b \in {Undefined, Str(<<"1", "2">>), Str(<<"a", "b", "c">>)} }
    \cup { ObjectOf([sender |-> u, receiver |-> w]) : u \in UserValues, w \in UserValues }
    \cup { ObjectOf([is_topup |-> f, is_outgoing_transfer |-> g]) :
             f \in FlagValues, g \in FlagValues }
    \cup { ObjectOf([created_at_time |-> c]) : c \in TimeValues }
    \cup { FullItem, SparseItem, Null, Num(7), Str(<<"x">>), Bool(TRUE), Arr(<<>>) }

\* The items of the longer lists
ListItems == { FullItem, SparseItem, Null, Num(7) }

RECURSIVE ListsOf(_, _)
\* The lists of exactly n elements of S
ListsOf(S, n) ==
    IF n = 0 THEN { <<>> }
    ELSE { <<x>> \o l : x \in S, l \in ListsOf(S, n - 1) }

\* The arguments of transformTransactions: what is no array, the empty
\* list, every item alone, and the longer lists
RawInputs ==
    { Undefined, Null, Str(<<"x">>), Num(7), Obj([data |-> Arr(<<>>)]) }
    \cup { Arr(<<>>) }
    \cup { Arr(<<x>>) : x \in Items }
    \cup UNION { { Arr(l) : l \in ListsOf(ListItems, n) } : n \in 2 .. MaxItems }

InitNormalize ==
    /\ apiKey = Key0
    /\ apiSecret = Secret0
    /\ now = ClockStart
    /\ pc = [r \in Requests |-> "idle"]
    /\ inbound = [r \in Requests |-> None]
    /\ locals = [r \in Requests |-> None]
    /\ outbound = [r \in Requests |-> None]
    /\ calls = [r \in Requests |-> 0]
    /\ reply = [r \in Requests |-> None]
    /\ outcome = [r \in Requests |-> None]
    /\ errlog = [r \in Requests |-> None]
    /\ raw \in RawInputs
    /\ normalized = None

\* transformTransactions(raw) runs
Normalize ==
    /\ normalized = None
    /\ normalized' = transformTransactions(raw, now)
    /\ UNCHANGED <<gatewayVars, now, raw>>

NextNormalize == Normalize \/ Tick

SpecNormalize == InitNormalize /\ [][NextNormalize]_vars

----------------------------------------------------------------------------
(* What the claims are stated with *)

IsString(v)  == v.t = "string"
IsNumber(v)  == v.t = "number" /\ ~IsNaN(v)
IsBoolean(v) == v.t = "boolean"

\* Every field of a Transaction has its declared type
WellTyped(tx) ==
    /\ IsString(tx.id) /\ IsString(tx.currency) /\ IsString(tx.cause)
    /\ IsString(tx.sender_caption) /\ IsString(tx.receiver_caption)
    /\ IsString(tx.amount_with_currency)
    /\ IsString(tx.sender.name) /\ IsString(tx.sender.account)
    /\ IsString(tx.receiver.name) /\ IsString(tx.receiver.account)
    /\ IsNumber(tx.amount) /\ IsNumber(tx.amount_in_base_currency)
    /\ IsNumber(tx.fee) /\ IsNumber(tx.fee_vat) /\ IsNumber(tx.fee_before_vat)
    /\ IsNumber(tx.created_at_time)
    /\ IsBoolean(tx.is_topup) /\ IsBoolean(tx.is_outgoing_transfer)

\* page does not parse to an integer >= 1
PageInvalid(req) ==
    LET n == parseInt10(DefaultPage(req.page)) IN IsNaN(n) \/ n.n < 1

\* limit does not parse to an integer in [1, 100]
LimitInvalid(req) ==
    LET n == parseInt10(DefaultLimit(req.limit)) IN IsNaN(n) \/ n.n < 1 \/ n.n > 100

\* the query of a search is missing, null, empty or white space only
QueryBlank(req) ==
    /\ req.op = "searchTransactions"
    /\ LET q == Get(req.body, "query")
       IN  IsNullish(q) \/ (q.t = "string" /\ trim(q.s) = <<>>)

Handled(r) == pc[r] # "idle"

Is400(r, message) == outcome[r] = HttpException(message, BAD_REQUEST)

FailureMessage(r) ==
    IF inbound[r].op = "getTransactions" THEN FailedFetch ELSE FailedSearch

UpstreamFailed(r) == pc[r] = "done" /\ reply[r] # None /\ reply[r].state = "rejected"

UpstreamSucceeded(r) == pc[r] = "done" /\ reply[r] # None /\ reply[r].state = "fulfilled"

Succeeded(r) == pc[r] = "done" /\ outcome[r].kind = "success"

\* The page and limit of r as the controller parses them
OwnPage(r)  == parseInt10(DefaultPage(inbound[r].page))
OwnLimit(r) == parseInt10(DefaultLimit(inbound[r].limit))

----------------------------------------------------------------------------
(* C1: a request whose page does not parse to an integer >= 1, whose limit  *)
(* does not parse to an integer in [1, 100] or (search) whose query is      *)
(* empty or white space only ends with the 400 error of one of its faults,  *)
(* and no upstream call is issued for it.                                   *)
C1_InvalidInputEndsIn400 ==
    \A r \in Requests :
        (Handled(r) /\ (PageInvalid(inbound[r]) \/ LimitInvalid(inbound[r])
                           \/ QueryBlank(inbound[r])))
        => /\ pc[r] = "done"
           /\ calls[r] = 0
           /\ \/ PageInvalid(inbound[r]) /\ Is400(r, InvalidPage)
              \/ LimitInvalid(inbound[r]) /\ Is400(r, InvalidLimit)
              \/ QueryBlank(inbound[r]) /\ Is400(r, QueryRequired)

(* C2: when the upstream call fails, the request ends with the one Bad      *)
(* Gateway error of its operation, whose message is a fixed text: the same  *)
(* whatever the upstream error carries; one upstream call was made.         *)
C2_UpstreamFailureIsGeneric502 ==
    \A r \in Requests :
        UpstreamFailed(r)
        => /\ outcome[r] = HttpException(FailureMessage(r), BAD_GATEWAY)
           /\ calls[r] = 1

\* an upstream error that carries a response body has been mapped
C2_Witness ==
    \E r \in Requests :
        /\ UpstreamFailed(r)
        /\ Get(reply[r].error, "response") # Undefined
        /\ inbound[r].op = "getTransactions"
        /\ outcome[r].status = BAD_GATEWAY

(* C3: a handled request ends in one of three outcomes: success, the 502    *)
(* gateway error after its one upstream call, or a 400 before any upstream  *)
(* call; never more than one upstream call is issued for it.                *)
C3_ThreeOutcomes ==
    \A r \in Requests :
        /\ calls[r] <= 1
        /\ pc[r] = "done"
           => \/ outcome[r].kind = "success" /\ calls[r] = 1
              \/ /\ outcome[r].kind = "HttpException"
                 /\ outcome[r].status = BAD_GATEWAY
                 /\ calls[r] = 1
              \/ /\ outcome[r].kind = "HttpException"
                 /\ outcome[r].status = BAD_REQUEST
                 /\ calls[r] = 0

C5_MalformedItemsNeverFail ==
    \A r \in Requests :
        (/\ UpstreamSucceeded(r)
         /\ reply[r].response.data.t = "object"
         /\ Get(reply[r].response.data, "data").t = "array")
        => /\ outcome[r].kind = "success"
           /\ \A i \in 1 .. Len(outcome[r].body.data) : WellTyped(outcome[r].body.data[i])

(* C6: every record the normaliser returns has every field of its declared  *)
(* type: strings, numbers that are not NaN, booleans.                       *)
C6_EveryFieldWellTyped ==
    (normalized # None /\ normalized.t = "array")
    => \A i \in 1 .. Len(normalized.a) : WellTyped(normalized.a[i])

(* C7: on success of either operation, page and limit are the requested     *)
(* numbers, total is the upstream total when supplied and the number of     *)
(* records otherwise, totalPages is the upstream lastPage when supplied     *)
(* and ceil(total / limit) otherwise.                                       *)
C7_PaginationMetadata ==
    \A r \in Requests :
        Succeeded(r)
        => LET up == reply[r].response.data
               p  == outcome[r].body.pagination
               n  == Num(Len(outcome[r].body.data))
           IN  /\ p.page = OwnPage(r)
               /\ p.limit = OwnLimit(r)
               /\ p.total = IF Get(up, "total") # Undefined THEN Get(up, "total") ELSE n
               /\ p.totalPages = IF Get(up, "lastPage") # Undefined
                                 THEN Get(up, "lastPage")
                                 ELSE MathCeilDiv(p.total, OwnLimit(r))

(* C8: with requests interleaved in every way, every upstream request in    *)
(* flight is signed over its own timestamp, method, path and body and       *)
(* carries its own page and limit, every response is what the handler       *)
(* makes of that request's own parameters and its own upstream reply, and   *)
(* the credentials are those of the construction.                           *)
C8_RequestsDoNotInterfere ==
    /\ apiKey = Key0
    /\ apiSecret = Secret0
    /\ \A r \in Requests :
          outbound[r] # None
          => LET m == outbound[r]
             IN  /\ m.headers["YAYA-API-SIGN"] =
                        HmacSha256Base64(Secret0,
                            m.headers["YAYA-API-TIMESTAMP"].s \o m.method
                                \o UrlPath(m.url) \o m.body)
                 /\ m.headers["YAYA-API-KEY"] = Key0
                 /\ m.params = [page |-> OwnPage(r), limit |-> OwnLimit(r)]
                 /\ m.body = IF inbound[r].op = "getTransactions" THEN <<>>
                             ELSE JSONstringifyQuery(Get(inbound[r].body, "query"))
    /\ \A r \in Requests :
          (pc[r] = "done" /\ reply[r] # None)
          => \E clock \in Clock :
                outcome[r] =
                    (IF inbound[r].op = "getTransactions"
                     THEN getTransactionsResume(OwnPage(r), OwnLimit(r), reply[r], clock)
                     ELSE searchTransactionsResume(OwnPage(r), OwnLimit(r), reply[r], clock)
                    ).outcome

\* a request has succeeded while another one, of another page and signed at
\* another time, is suspended in its upstream call
C8_Witness ==
    \E r, s \in Requests :
        /\ r # s
        /\ Succeeded(r)
        /\ pc[s] = "awaiting"
        /\ OwnPage(r) # OwnPage(s)
        /\ outbound[r].headers["YAYA-API-TIMESTAMP"]
              # outbound[s].headers["YAYA-API-TIMESTAMP"]

(* C9: for an array the normaliser returns an array of the same length      *)
(* whose i-th record is what the i-th item alone gives; for the empty       *)
(* array and for whatever is no array it returns the empty array.           *)
C9_ElementwiseInOrder ==
    normalized # None
    => IF raw.t = "array"
       THEN /\ normalized.t = "array"
            /\ Len(normalized.a) = Len(raw.a)
            /\ \A i \in 1 .. Len(raw.a) :
                  \E clock \in Clock : normalized.a[i] = transformItem(raw.a[i], clock)
       ELSE normalized = Arr(<<>>)

(* C10: amount_in_base_currency is its own parsed value when that is a      *)
(* number, else the parsed amount when that is a number, else 0.            *)
C10_BaseCurrencyFallback ==
    (normalized # None /\ raw.t = "array" /\ normalized.t = "array")
    => \A i \in 1 .. Len(raw.a) :
          LET own == parseFloat(Get(raw.a[i], "amount_in_base_currency"))
              amt == parseFloat(Get(raw.a[i], "amount"))
          IN  normalized.a[i].amount_in_base_currency =
                  IF ~IsNaN(own) THEN own ELSE IF ~IsNaN(amt) THEN amt ELSE Num(0)

====
